---- MODULE Spec2Model ----
(***************************************************************************)
(* QDMpy.core.fit.Fit: the fit lifecycle (data / model / constraints       *)
(* mutation, cached initial guess, batched solver calls per frequency      *)
(* range, result accumulation) and the model registry it reads.            *)
(*                                                                         *)
(* Values                                                                  *)
(*   ndarray  [kind, shape, flat]  kind "ndarray" | "float" | "None";      *)
(*            flat is the row-major (C order) list of cells                *)
(*   float    <<num, den>> in lowest terms, den > 0; <<0, 0>> is NaN and   *)
(*            <<1, 0>> / <<-1, 0>> are +inf / -inf                         *)
(*   optional number  <<>> is None, <<v>> is the number v                  *)
(***************************************************************************)
EXTENDS Integers, Sequences, FiniteSets, TLC

(***************************************************************************)
(* Bounds of the model                                                     *)
(***************************************************************************)
\* pixels per dataset, successful constraint calls per instance, frequency
\* bins per range
MaxPix == 2
MaxSet == 1
NFreq == 3
\* the frequency bins of a spectrum handed to the module functions directly
NBins == 8

(***************************************************************************)
(* Shape of the inputs                                                     *)
(***************************************************************************)
\* the polarizations and the frequency ranges of a dataset
NPol == 2
NFrange == 2

NoneStr == "<None>"
\* an exception is the list <<type, message, arguments...>>; NoErr: no exception
NoErr == <<>>

Err(type, msg, args) == <<type, msg>> \o args

ErrType(e) == IF e = NoErr THEN "" ELSE e[1]

(***************************************************************************)
(* numpy arrays                                                            *)
(***************************************************************************)
None == [kind |-> "None", shape |-> <<>>, flat |-> <<>>]

NDArray(shape, flat) == [kind |-> "ndarray", shape |-> shape, flat |-> flat]

PyFloat(v) == [kind |-> "float", shape |-> <<>>, flat |-> <<v>>]

RECURSIVE Prod(_)
Prod(shape) == IF shape = <<>> THEN 1 ELSE Head(shape) * Prod(Tail(shape))

\* 0-based row-major offset of the 1-based multi-index ix in an array of that shape
RECURSIVE RavelFrom(_, _, _, _)
RavelFrom(ix, shape, i, acc) ==
    IF i > Len(shape) THEN acc
    ELSE RavelFrom(ix, shape, i + 1, acc * shape[i] + (ix[i] - 1))

Ravel(ix, shape) == RavelFrom(ix, shape, 1, 0)

\* 1-based multi-index of the 0-based row-major offset k
\* Strides(shape)[i]: the number of cells one step along axis i skips
RECURSIVE StridesFrom(_, _, _)
StridesFrom(shape, i, acc) ==
    IF i = 0 THEN acc
    ELSE StridesFrom(shape, i - 1,
                     <<(IF acc = <<>> THEN 1 ELSE acc[1] * shape[i + 1])>> \o acc)

Strides(shape) == StridesFrom(shape, Len(shape), <<>>)

UnravelBy(k, shape, strides) ==
    [i \in 1..Len(shape) |-> ((k \div strides[i]) % shape[i]) + 1]

Unravel(k, shape) == UnravelBy(k, shape, Strides(shape))

At(a, ix) == a.flat[Ravel(ix, a.shape) + 1]

\* the list [f(1), ..., f(n)]
ListOf(n, f(_)) == SubSeq([k \in 1..n |-> f(k)], 1, n)

\* f(1) \o ... \o f(n)
Concat(n, f(_)) ==
    LET g[k \in 0..n] == IF k = 0 THEN <<>> ELSE g[k - 1] \o f(k)
    IN  g[n]

\* the cells of a at flat offsets first .. first + n - 1 (0-based)
Block(a, first, n) == SubSeq(a.flat, first + 1, first + n)

FromFn(shape, f(_)) ==
    LET strides == Strides(shape)
    IN  NDArray(shape, ListOf(Prod(shape), LAMBDA k : f(UnravelBy(k - 1, shape, strides))))

NDim(a) == Len(a.shape)

\* ndarray.reshape(shape): same cells in the same row-major order
Reshape(a, shape) == NDArray(shape, a.flat)

\* ndarray.reshape((-1, n))
ReshapeRows(a, n) == Reshape(a, <<Prod(a.shape) \div n, n>>)

\* np.squeeze: drop every axis of length 1
Squeeze(a) == NDArray(SelectSeq(a.shape, LAMBDA d : d # 1), a.flat)

\* np.swapaxes(a, 0, 1)
SwapAxes01(a) ==
    LET s == a.shape
        t == <<s[2], s[1]>> \o SubSeq(s, 3, Len(s))
        r == Prod(SubSeq(s, 3, Len(s)))
    IN  NDArray(t, Concat(s[2], LAMBDA j :
                     Concat(s[1], LAMBDA i : Block(a, ((i - 1) * s[2] + (j - 1)) * r, r))))

\* np.stack((a, b)) along a new leading axis; the shapes must agree
StackOK(a, b) == a.shape = b.shape

Stack2(a, b) == NDArray(<<2>> \o a.shape, a.flat \o b.flat)

\* a[:, i] for 1-based i
Col(a, i) ==
    LET s == a.shape
        t == <<s[1]>> \o SubSeq(s, 3, Len(s))
        r == Prod(SubSeq(s, 3, Len(s)))
    IN  NDArray(t, Concat(s[1], LAMBDA p : Block(a, ((p - 1) * s[2] + (i - 1)) * r, r)))

\* a[i] for 1-based i
Row(a, i) ==
    LET r == Prod(Tail(a.shape))
    IN  NDArray(Tail(a.shape), Block(a, (i - 1) * r, r))

\* np.tile(row, (n, 1))
Tile(row, n) == NDArray(<<n, Len(row)>>, Concat(n, LAMBDA i : row))

\* np.stack(arrays, axis=ndim) of equally shaped arrays: the new axis is last
StackLast(arrays) ==
    LET s == arrays[1].shape
    IN  FromFn(s \o <<Len(arrays)>>,
               LAMBDA ix : At(arrays[ix[Len(ix)]], SubSeq(ix, 1, Len(ix) - 1)))

\* a[:, :, :, idx] for a list idx of 1-based positions (fancy index on axis 3)
Take4(a, idx) ==
    LET s == a.shape
    IN  FromFn(<<s[1], s[2], s[3], Len(idx)>>,
               LAMBDA ix : At(a, <<ix[1], ix[2], ix[3], idx[ix[4]]>>))

(***************************************************************************)
(* Floating point values, kept exact                                       *)
(***************************************************************************)
Abs(n) == IF n < 0 THEN -n ELSE n

Sign(n) == IF n < 0 THEN -1 ELSE IF n = 0 THEN 0 ELSE 1

RECURSIVE Gcd(_, _)
Gcd(a, b) == IF b = 0 THEN a ELSE Gcd(b, a % b)

\* n / d as numpy divides: x/0 is NaN for x = 0 and +-inf otherwise
Rat(n, d) ==
    IF d = 0 THEN <<Sign(n), 0>>
    ELSE LET g == Gcd(Abs(n), Abs(d))
         IN  <<(Sign(d) * n) \div g, Abs(d) \div g>>

NaN == <<0, 0>>

IsNaN(x) == x = NaN

IsFinite(x) == x[2] # 0

RatAbs(x) == <<Abs(x[1]), x[2]>>

\* x - y for finite y
RatSub(x, y) ==
    IF IsFinite(x) THEN Rat(x[1] * y[2] - y[1] * x[2], x[2] * y[2]) ELSE x

\* a / b < c / d for b > 0 and d > 0, by integer parts and then the
\* remainders, so that no product of numerators and denominators is formed
RECURSIVE FracLess(_, _, _, _)
FracLess(a, b, c, d) ==
    IF a \div b # c \div d THEN a \div b < c \div d
    ELSE IF c % d = 0 THEN FALSE
    ELSE IF a % b = 0 THEN TRUE
    ELSE FracLess(d, c % d, b, a % b)

\* x < y for values that are not NaN
RatLess(x, y) ==
    IF IsFinite(x) /\ IsFinite(y) THEN FracLess(x[1], x[2], y[1], y[2])
    ELSE IF IsFinite(x) THEN y[1] > 0
    ELSE IF IsFinite(y) THEN x[1] < 0
    ELSE x[1] < y[1]

\* np.argmin over a list: the first NaN if there is one, else the first minimum
\* (1-based position)
ArgMin(xs) ==
    IF \E k \in 1..Len(xs) : IsNaN(xs[k])
    THEN CHOOSE k \in 1..Len(xs) :
            IsNaN(xs[k]) /\ \A j \in 1..(k - 1) : ~IsNaN(xs[j])
    ELSE CHOOSE k \in 1..Len(xs) :
            /\ \A j \in 1..Len(xs) : ~RatLess(xs[j], xs[k])
            /\ \A j \in 1..(k - 1) : RatLess(xs[k], xs[j])

RECURSIVE SeqMin(_)
SeqMin(xs) ==
    IF Len(xs) = 1 THEN xs[1]
    ELSE LET m == SeqMin(Tail(xs)) IN IF xs[1] <= m THEN xs[1] ELSE m

RECURSIVE SeqMax(_)
SeqMax(xs) ==
    IF Len(xs) = 1 THEN xs[1]
    ELSE LET m == SeqMax(Tail(xs)) IN IF xs[1] >= m THEN xs[1] ELSE m

(***************************************************************************)
(* QDMpy._core.models                                                      *)
(***************************************************************************)
IMPLEMENTED ==
    [GAUSS1D   |-> [func_name |-> "GAUSS1D", n_peaks |-> 1, model_id |-> 0,
                    params |-> <<"center", "width", "contrast", "offset">>],
     ESR14N    |-> [func_name |-> "ESR14N", n_peaks |-> 3, model_id |-> 13,
                    params |-> <<"center", "width", "contrast", "contrast",
                                 "contrast", "offset">>],
     ESR15N    |-> [func_name |-> "ESR15N", n_peaks |-> 2, model_id |-> 14,
                    params |-> <<"center", "width", "contrast", "contrast",
                                 "offset">>],
     ESRSINGLE |-> [func_name |-> "ESRSINGLE", n_peaks |-> 1, model_id |-> 15,
                    params |-> <<"center", "width", "contrast", "offset">>]]

\* list(models.IMPLEMENTED.keys()), in insertion order
ImplementedKeys == <<"GAUSS1D", "ESR14N", "ESR15N", "ESRSINGLE">>

\* the model names a caller passes: registered names, registered names in
\* lower case, and names that no letter case makes registered
ModelNames == {"GAUSS1D", "ESR14N", "ESR15N", "ESRSINGLE", "esr14n", "FOO"}

\* str.upper() on the names above
Upper(name) ==
    CASE name = "esr14n" -> "ESR14N"
      [] OTHER -> name

(***************************************************************************)
(* QDMpy.core.fit: module constants                                        *)
(***************************************************************************)
UNITS == [center |-> "GHz", width |-> "GHz", contrast |-> "a.u.", offset |-> "a.u."]

CONSTRAINT_TYPES == <<"FREE", "LOWER", "UPPER", "LOWER_UPPER">>

\* list.index(x): 1-based position of the first occurrence, 0 when absent
IndexOf(lst, x) ==
    IF \E k \in 1..Len(lst) : lst[k] = x
    THEN CHOOSE k \in 1..Len(lst) : lst[k] = x /\ \A j \in 1..(k - 1) : lst[j] # x
    ELSE 0

\* lst[i] for a Python int i: negative i counts from the end; the result is
\* the 1-based position, 0 when i is out of range (IndexError)
PyIndex(lst, i) ==
    IF 0 <= i /\ i < Len(lst) THEN i + 1
    ELSE IF -Len(lst) <= i /\ i < 0 THEN Len(lst) + i + 1
    ELSE 0

\* list.count(x)
RECURSIVE Count(_, _)
Count(lst, x) ==
    IF lst = <<>> THEN 0
    ELSE (IF Head(lst) = x THEN 1 ELSE 0) + Count(Tail(lst), x)

InList(lst, x) == \E k \in 1..Len(lst) : lst[k] = x

(***************************************************************************)
(* Inputs: the frequency axis and the datasets a caller passes             *)
(***************************************************************************)
\* frequency axis [frequency_range, freq_bin], ascending in every range
f_ghz == FromFn(<<NFrange, NFreq>>, LAMBDA ix : 10 * ix[1] + ix[2])

\* [polarization, frequency_range, pixel, freq_bin]; the baseline is 1 and a
\* dip is 0.  "uniform": the same dip in every spectrum, "varied": the dip
\* moves with polarization, range and pixel, "flat": no dip at all
MkData(npix, variant) ==
    FromFn(<<NPol, NFrange, npix, NFreq>>,
           LAMBDA ix :
             CASE variant = "uniform" -> IF ix[4] = 2 THEN 0 ELSE 1
               [] variant = "varied" ->
                    IF ix[4] = ((2 * ix[1] + ix[2] + ix[3]) % NFreq) + 1 THEN 0 ELSE 1
               [] OTHER -> 1)

DataSets == {MkData(n, "uniform") : n \in 1..MaxPix} \cup {MkData(2, "varied")}

\* a dataset of no pixel at all
EmptyData == MkData(0, "uniform")

\* every dataset an instance is constructed on
AllDataSets == DataSets \cup {EmptyData}

\* the spectrum (last axis) of a 3-d array at [i, j]
Spectrum(a, i, j) == [k \in 1..a.shape[3] |-> At(a, <<i, j, k>>)]

(***************************************************************************)
(* np.all(self._data == data)                                              *)
(***************************************************************************)
\* the two shapes broadcast against each other
Broadcastable(s, t) ==
    /\ Len(s) = Len(t)
    /\ \A k \in 1..Len(s) : s[k] = t[k] \/ s[k] = 1 \/ t[k] = 1

BroadcastShape(s, t) == [k \in 1..Len(s) |-> IF s[k] = 1 THEN t[k] ELSE s[k]]

\* index ix of the broadcast result, read in an array of shape s
Clip(ix, s) == [k \in 1..Len(s) |-> IF s[k] = 1 THEN 1 ELSE ix[k]]

\* np.all(a == b) for broadcastable shapes
AllEqualOf(a, b) ==
    LET bs == BroadcastShape(a.shape, b.shape)
    IN  \A k \in 0..(Prod(bs) - 1) :
            LET ix == Unravel(k, bs)
            IN  At(a, Clip(ix, a.shape)) = At(b, Clip(ix, b.shape))

\* np.all(a == b) for the datasets a caller passes, evaluated once per pair;
\* FALSE where the shapes do not broadcast
AllEqualTable ==
    [a \in DataSets |-> [b \in DataSets |->
        Broadcastable(a.shape, b.shape) /\ AllEqualOf(a, b)]]

AllEqual(a, b) == AllEqualTable[a][b]

(***************************************************************************)
(* Initial guess: module functions of QDMpy.core.fit                       *)
(***************************************************************************)
\* np.cumsum(data - 1)
RECURSIVE CumsumM1(_, _)
CumsumM1(xs, k) ==
    IF k = 0 THEN <<>>
    ELSE LET c == CumsumM1(xs, k - 1)
         IN  Append(c, (IF k = 1 THEN 0 ELSE c[k - 1]) + xs[k] - 1)

\* normalized_cumsum on one spectrum
normalized_cumsum(spectrum) ==
    LET c  == CumsumM1(spectrum, Len(spectrum))
        mn == SeqMin(c)
        e  == [k \in 1..Len(c) |-> c[k] - mn]
        mx == SeqMax(e)
    IN  [k \in 1..Len(e) |-> Rat(e[k], mx)]

\* np.argmin(np.abs(data - q)) on one normalized spectrum
NearestIdx(nc, q) == ArgMin([k \in 1..Len(nc) |-> RatAbs(RatSub(nc[k], q))])

\* guess_center_freq_single taking the index where the cumulative curve ends
guess_center_freq_end(data, freq) ==
    FromFn(<<data.shape[1], data.shape[2]>>,
           LAMBDA ix :
             LET nc == normalized_cumsum(Spectrum(data, ix[1], ix[2]))
             IN  Rat(freq.flat[NearestIdx(nc, <<0, 1>>)], 1))

\* guess_center_freq_single(data[:, r], freq[r]): data is [pol, pixel, freq_bin]
guess_center_freq_single(data, freq) ==
    FromFn(<<data.shape[1], data.shape[2]>>,
           LAMBDA ix :
             LET nc == normalized_cumsum(Spectrum(data, ix[1], ix[2]))
             IN  Rat(freq.flat[NearestIdx(nc, <<1, 2>>)], 1))

\* guess_width_single subtracting the frequency at the index nearest 0.25
\* from the one at the index nearest 0.75
guess_width_single_swapped(data, freq) ==
    FromFn(<<data.shape[1], data.shape[2]>>,
           LAMBDA ix :
             LET nc   == normalized_cumsum(Spectrum(data, ix[1], ix[2]))
                 lidx == NearestIdx(nc, <<1, 4>>)
                 ridx == NearestIdx(nc, <<3, 4>>)
             IN  Rat(freq.flat[ridx] - freq.flat[lidx], 1))

\* guess_width_single
guess_width_single(data, freq) ==
    FromFn(<<data.shape[1], data.shape[2]>>,
           LAMBDA ix :
             LET nc   == normalized_cumsum(Spectrum(data, ix[1], ix[2]))
                 lidx == NearestIdx(nc, <<1, 4>>)
                 ridx == NearestIdx(nc, <<3, 4>>)
             IN  Rat(freq.flat[lidx] - freq.flat[ridx], 1))

\* np.stack([a, b], axis=1) of two [pol, pixel] arrays
StackAxis1(a, b) ==
    FromFn(<<a.shape[1], 2, a.shape[2]>>,
           LAMBDA ix : At(IF ix[2] = 1 THEN a ELSE b, <<ix[1], ix[3]>>))

\* guess_center without the swapaxes after the stack: [range, pol, pixel]
guess_center_unswapped(data, freq) ==
    LET center_lf == guess_center_freq_single(Col(data, 1), Row(freq, 1))
        center_rf == guess_center_freq_single(Col(data, 2), Row(freq, 2))
    IN  Stack2(center_lf, center_rf)

guess_center(data, freq) ==
    LET center_lf == guess_center_freq_single(Col(data, 1), Row(freq, 1))
        center_rf == guess_center_freq_single(Col(data, 2), Row(freq, 2))
    IN  SwapAxes01(Stack2(center_lf, center_rf))

guess_width(data, freq) ==
    LET width_lf == guess_width_single(Col(data, 1), Row(freq, 1))
        width_rf == guess_width_single(Col(data, 2), Row(freq, 2))
        width    == StackAxis1(width_lf, width_rf)
    IN  NDArray(width.shape,
                [k \in 1..Len(width.flat) |->
                    Rat(width.flat[k][1], 6 * width.flat[k][2])])

\* guess_contrast: 0.9 * |(max - min) / max| along the frequency axis
guess_contrast(data) ==
    FromFn(<<data.shape[1], data.shape[2], data.shape[3]>>,
           LAMBDA ix :
             LET sp == [k \in 1..data.shape[4] |-> At(data, ix \o <<k>>)]
                 mx == SeqMax(sp)
                 mn == SeqMin(sp)
                 q  == RatAbs(Rat(mx - mn, mx))
             IN  IF IsFinite(q) THEN Rat(9 * q[1], 10 * q[2]) ELSE q)

\* Fit._guess_offset
guess_offset(data) ==
    FromFn(<<data.shape[1], data.shape[2], data.shape[3]>>, LAMBDA ix : Rat(0, 1))

(***************************************************************************)
(* class Fit.  A Fit instance is a record of its fields; every method is   *)
(* an operator from the instance (and the arguments) to the instance after *)
(* the call and the exception raised, NoErr when the call returned.        *)
(***************************************************************************)
Ok(self) == [self |-> self, err |-> NoErr]

Raise(self, e) == [self |-> self, err |-> e]

\* QDMpy.SETTINGS["fit"]["constraints"]: the configured default bounds
default_constraints ==
    [center_min   |-> <<20>>, center_max   |-> <<21>>, center_type   |-> "FREE",
     width_min    |-> <<30>>, width_max    |-> <<31>>, width_type    |-> "LOWER_UPPER",
     contrast_min |-> <<40>>, contrast_max |-> <<41>>, contrast_type |-> "LOWER_UPPER",
     offset_min   |-> <<50>>, offset_max   |-> <<51>>, offset_type   |-> "FREE"]

\* a constraint_type argument: a str, an int or None
KStr(name) == [t |-> "str", i |-> 0, s |-> name]

KInt(i) == [t |-> "int", i |-> i, s |-> ""]

KNone == [t |-> "none", i |-> 0, s |-> NoneStr]

_reset_fit(self) ==
    [self EXCEPT !._fitted = FALSE,
                 !._fit_results = None,
                 !._states = None,
                 !._chi_squares = None,
                 !._number_iterations = None,
                 !._execution_time = None]

fitting_parameter(self) == self._model_dict.params

model_id(self) == self._model_dict.model_id

\* models.IMPLEMENTED[self._model]['params']
model_params(self) == IMPLEMENTED[self._model].params

n_parameter(self) == Len(fitting_parameter(self))

\* f"{v}_{n}"
SlotName(v, n) == v \o "_" \o ToString(n)

\* the inner loop of fitting_parameter_unique: the first n in range(10), from
\* n on, with f"{v}_{n}" not in lst; lst unchanged when there is none
\* the inner loop without the "not in lst" test: the suffix is never advanced
AppendAlways(lst, v, n) == Append(lst, SlotName(v, n))

RECURSIVE AppendFirstFree(_, _, _)
AppendFirstFree(lst, v, n) ==
    IF n >= 10 THEN lst
    ELSE IF ~InList(lst, SlotName(v, n)) THEN Append(lst, SlotName(v, n))
    ELSE AppendFirstFree(lst, v, n + 1)

RECURSIVE UniqueLoop(_, _, _)
UniqueLoop(params, i, lst) ==
    IF i > Len(params) THEN lst
    ELSE UniqueLoop(params, i + 1,
                    IF Count(params, params[i]) > 1
                    THEN AppendFirstFree(lst, params[i], 0)
                    ELSE Append(lst, params[i]))

UniqueOf(params) == UniqueLoop(params, 1, <<>>)

\* the unique slots of every registered template, evaluated once
UniqueTable == [n \in DOMAIN IMPLEMENTED |-> UniqueOf(IMPLEMENTED[n].params)]

fitting_parameter_unique(self) == UniqueTable[self._model_dict.func_name]

\* getattr(self, f"_guess_{p}")()
GuessOf(data, p) ==
    CASE p = "center"   -> guess_center(data, f_ghz)
      [] p = "width"    -> guess_width(data, f_ghz)
      [] p = "contrast" -> guess_contrast(data)
      [] OTHER          -> guess_offset(data)

\* the body of get_initial_parameter for data and a parameter template
InitialParameterOf(data, fp) ==
    StackLast([i \in 1..Len(fp) |-> GuessOf(data, fp[i])])

\* ... evaluated once per dataset and registered template
InitialParameterTable ==
    [d \in AllDataSets |-> [n \in DOMAIN IMPLEMENTED |->
        InitialParameterOf(d, IMPLEMENTED[n].params)]]

get_initial_parameter(self) ==
    InitialParameterTable[self._data][self._model_dict.func_name]

\* the initial_parameter property: fills the cache when it is empty
initial_parameter(self) ==
    IF self._initial_parameter = None
    THEN [self EXCEPT !._initial_parameter = get_initial_parameter(self)]
    ELSE self

\* the data setter.  np_raises: what numpy does with == on shapes that do not
\* broadcast (it answers False up to 1.24 and raises from 1.25 on)
set_data(self, data, np_raises) ==
    IF Broadcastable(self._data.shape, data.shape)
    THEN IF AllEqual(self._data, data) THEN Ok(self)
         ELSE Ok(_reset_fit([self EXCEPT !._data = data,
                                         !._initial_parameter = None]))
    ELSE IF np_raises
         THEN Raise(self, Err("ValueError", "operands could not be broadcast together", <<>>))
         ELSE Ok(_reset_fit([self EXCEPT !._data = data,
                                         !._initial_parameter = None]))

\* the model setter storing the name before the registry test
set_model_early(self, model) ==
    LET s1 == [self EXCEPT !._model = Upper(model)]
    IN  IF Upper(model) \notin DOMAIN IMPLEMENTED
        THEN Raise(s1, Err("ValueError", "Unknown model", <<model>> \o ImplementedKeys))
        ELSE IF model \notin DOMAIN IMPLEMENTED
             THEN Raise(s1, Err("KeyError", model, <<>>))
             ELSE LET s2 == _reset_fit([s1 EXCEPT !._model_dict = IMPLEMENTED[model]])
                  IN  Ok([s2 EXCEPT !._initial_parameter = get_initial_parameter(s2)])

\* the model setter
set_model(self, model) ==
    IF Upper(model) \notin DOMAIN IMPLEMENTED
    THEN Raise(self, Err("ValueError", "Unknown model", <<model>> \o ImplementedKeys))
    ELSE LET s1 == [self EXCEPT !._model = Upper(model)]
         IN  IF model \notin DOMAIN IMPLEMENTED
             THEN Raise(s1, Err("KeyError", model, <<>>))
             ELSE LET s2 == _reset_fit([s1 EXCEPT !._model_dict = IMPLEMENTED[model]])
                  IN  Ok([s2 EXCEPT !._initial_parameter = get_initial_parameter(s2)])

\* param.split("_")[0] for the parameter names a caller passes
SplitHead(param) ==
    CASE param \in {"contrast_0", "contrast_1", "contrast_2"} -> "contrast"
      [] OTHER -> param

\* v == "contrast": equality where the code tests for a substring
HasContrastExact(v) == v = "contrast"

\* "contrast" in v
HasContrast(v) == v \in {"contrast", "contrast_0", "contrast_1", "contrast_2"}

\* self._constraints[param] = entry
DictSet(d, key, entry) ==
    [k \in (DOMAIN d) \cup {key} |-> IF k = key THEN entry ELSE d[k]]

EmptyDict == [k \in {} |-> 0]

\* set_constraints; ct is the constraint_type argument (KStr, KInt or KNone)
RECURSIVE set_constraints(_, _, _, _, _)
RECURSIVE SetEach(_, _, _, _, _)

\* the loop over the contrast slots: one set_constraints call per slot
SetEach(self, slots, vmin, vmax, ct) ==
    IF slots = <<>> THEN Ok(self)
    ELSE LET r == set_constraints(self, Head(slots), vmin, vmax, ct)
         IN  IF r.err # NoErr THEN r
             ELSE SetEach(r.self, Tail(slots), vmin, vmax, ct)

set_constraints(self, param, vmin, vmax, ct) ==
    LET pos == PyIndex(CONSTRAINT_TYPES, ct.i)
    IN
    IF ct.t = "int" /\ pos = 0
    THEN Raise(self, Err("IndexError", "list index out of range", <<>>))
    ELSE
    LET constraint_type == IF ct.t = "int" THEN CONSTRAINT_TYPES[pos] ELSE ct.s
    IN
    IF constraint_type # NoneStr /\ ~InList(CONSTRAINT_TYPES, constraint_type)
    THEN Raise(self, Err("ValueError", "Unknown constraint type",
                         <<constraint_type>> \o CONSTRAINT_TYPES))
    ELSE IF param = "contrast" /\ fitting_parameter_unique(self) # fitting_parameter(self)
    THEN SetEach(self, SelectSeq(fitting_parameter_unique(self), HasContrast),
                 vmin, vmax, KStr(constraint_type))
    ELSE IF SplitHead(param) \notin DOMAIN UNITS
    THEN Raise(self, Err("KeyError", SplitHead(param), <<>>))
    ELSE Ok(_reset_fit(
            [self EXCEPT !._constraints =
                DictSet(@, param, [vmin |-> vmin, vmax |-> vmax,
                                   ct |-> constraint_type,
                                   unit |-> UNITS[SplitHead(param)]])]))

\* set_free_constraints: one call per unique slot, vmin and vmax left out
set_free_constraints(self) ==
    SetEach(self, fitting_parameter_unique(self), <<>>, <<>>, KStr("FREE"))

\* four set_constraints calls in a row; the first exception ends the sequence
RECURSIVE SetDefaults(_, _)
SetDefaults(self, kinds) ==
    IF kinds = <<>> THEN Ok(self)
    ELSE LET k == Head(kinds)
             r == set_constraints(self, k,
                                  default_constraints[k \o "_min"],
                                  default_constraints[k \o "_max"],
                                  KStr(default_constraints[k \o "_type"]))
         IN  IF r.err # NoErr THEN r ELSE SetDefaults(r.self, Tail(kinds))

_set_initial_constraints(self) ==
    SetDefaults(self, <<"center", "width", "contrast", "offset">>)

\* Fit(data, frequencies, model) with constraints=None
Fit__init__Of(data, model) ==
    LET s0 == [_data |-> data, _model |-> "", _model_dict |-> IMPLEMENTED["GAUSS1D"],
               _initial_parameter |-> None, _fitted |-> FALSE,
               _fit_results |-> None, _states |-> None, _chi_squares |-> None,
               _number_iterations |-> None, _execution_time |-> None,
               _constraints |-> EmptyDict]
        r1 == set_model(s0, Upper(model))
    IN  IF r1.err # NoErr THEN r1
        ELSE _set_initial_constraints(
                 [_reset_fit([r1.self EXCEPT !._initial_parameter = None])
                     EXCEPT !._constraints = EmptyDict])

\* the constructor evaluated once per dataset and model name
Fit__init__Table ==
    [d \in AllDataSets |-> [m \in ModelNames |-> Fit__init__Of(d, m)]]

Fit__init__(data, model) == Fit__init__Table[data][model]

\* the loop over the constraints argument of the constructor: items is the
\* dict as the list of its (key, value) pairs, and each pair is passed on as
\* set_constraints(k, constraints[k]), the value in the place of vmin
RECURSIVE ApplyOverrides(_, _)
ApplyOverrides(r, items) ==
    IF r.err # NoErr \/ items = <<>> THEN r
    ELSE ApplyOverrides(set_constraints(r.self, items[1][1], items[1][2], <<>>, KNone),
                        Tail(items))

\* Fit(data, frequencies, model, constraints)
Fit__init__With(data, model, constraints) ==
    ApplyOverrides(Fit__init__(data, model), constraints)

(***************************************************************************)
(* Constraint arrays                                                       *)
(***************************************************************************)
\* the unique slots that have no stored constraint
MissingSlots(self) ==
    {k \in 1..Len(fitting_parameter_unique(self)) :
        fitting_parameter_unique(self)[k] \notin DOMAIN self._constraints}

\* the list extended by (max, min) where the code extends it by (min, max)
constraints_list_swapped(self) ==
    LET u == fitting_parameter_unique(self)
    IN  Concat(Len(u), LAMBDA k : <<self._constraints[u[k]].vmax,
                                    self._constraints[u[k]].vmin>>)

\* the (min, max) list that get_constraints_array tiles
constraints_list(self) ==
    LET u == fitting_parameter_unique(self)
    IN  Concat(Len(u), LAMBDA k : <<self._constraints[u[k]].vmin,
                                    self._constraints[u[k]].vmax>>)

\* get_constraints_array(n_pixel): [err, ret]
get_constraints_array(self, n_pixel) ==
    IF MissingSlots(self) # {}
    THEN [err |-> Err("KeyError",
                      fitting_parameter_unique(self)[CHOOSE k \in MissingSlots(self) :
                          \A j \in MissingSlots(self) : k <= j], <<>>),
          ret |-> None]
    ELSE [err |-> NoErr, ret |-> Tile(constraints_list(self), n_pixel)]

\* get_constraint_types(): [err, ret]
get_constraint_types(self) ==
    LET u == fitting_parameter_unique(self)
    IN  IF MissingSlots(self) # {}
        THEN [err |-> Err("KeyError",
                          u[CHOOSE k \in MissingSlots(self) :
                              \A j \in MissingSlots(self) : k <= j], <<>>),
              ret |-> <<>>]
        ELSE IF \E k \in 1..Len(u) : IndexOf(CONSTRAINT_TYPES, self._constraints[u[k]].ct) = 0
        THEN [err |-> Err("ValueError", "is not in list", <<>>), ret |-> <<>>]
        ELSE [err |-> NoErr,
              ret |-> [k \in 1..Len(u) |->
                          IndexOf(CONSTRAINT_TYPES, self._constraints[u[k]].ct) - 1]]

\* np.ascontiguousarray(constraints, dtype=np.float32): None becomes NaN
ToFloat(a) ==
    NDArray(a.shape, [k \in 1..Len(a.flat) |->
                         IF a.flat[k] = <<>> THEN NaN ELSE Rat(a.flat[k][1], 1)])

(***************************************************************************)
(* The external solver, gf.fit_constrained                                 *)
(***************************************************************************)
\* what one call can do: fail, or return with a state code for its rows
SolverOutcomes == {"fail", "converged", "max_iterations"}

\* the output of a call that returned: each cell names the call (by its
\* frequency range), the row and, for the parameters, the slot it belongs to
SolverResults(irange, n, nparam, outcome) ==
    [parameters        |-> FromFn(<<n, nparam>>, LAMBDA ix : <<irange, ix[1], ix[2]>>),
     states            |-> FromFn(<<n>>, LAMBDA ix :
                               <<irange, ix[1], IF outcome = "converged" THEN 0 ELSE 3>>),
     chi_squares       |-> FromFn(<<n>>, LAMBDA ix : <<irange, ix[1]>>),
     number_iterations |-> FromFn(<<n>>, LAMBDA ix : <<irange, ix[1]>>),
     execution_time    |-> PyFloat(irange)]

(***************************************************************************)
(* Fit.fit_frange / reshape_result / fit_odmr                              *)
(***************************************************************************)
\* fit_frange flattening the initial guess pixel by pixel while the data are
\* flattened polarization by polarization
fit_frange_misaligned(self, irange, data, freq, initial_parameters, outcome) ==
    LET nfreq       == data.shape[3]
        flat        == ReshapeRows(data, nfreq)
        init        == ReshapeRows(SwapAxes01(initial_parameters), n_parameter(self))
        n_pixel     == flat.shape[1]
        constraints == get_constraints_array(self, n_pixel)
        types       == get_constraint_types(self)
        call        == [irange |-> irange, data |-> flat, user_info |-> freq,
                        constraints |-> ToFloat(constraints.ret),
                        constraint_types |-> types.ret,
                        initial_parameters |-> init,
                        model_id |-> model_id(self)]
    IN  IF constraints.err # NoErr
        THEN [err |-> constraints.err, call |-> <<>>, results |-> <<>>]
        ELSE IF types.err # NoErr
        THEN [err |-> types.err, call |-> <<>>, results |-> <<>>]
        ELSE IF outcome = "fail"
        THEN [err |-> Err("RuntimeError", "fit_constrained", <<>>),
              call |-> <<call>>, results |-> <<>>]
        ELSE [err |-> NoErr, call |-> <<call>>,
              results |-> <<SolverResults(irange, n_pixel, n_parameter(self), outcome)>>]

\* fit_frange(data, freq, initial_parameters): [err, call, results]
fit_frange(self, irange, data, freq, initial_parameters, outcome) ==
    LET nfreq       == data.shape[3]
        flat        == ReshapeRows(data, nfreq)
        init        == ReshapeRows(initial_parameters, n_parameter(self))
        n_pixel     == flat.shape[1]
        constraints == get_constraints_array(self, n_pixel)
        types       == get_constraint_types(self)
        call        == [irange |-> irange, data |-> flat, user_info |-> freq,
                        constraints |-> ToFloat(constraints.ret),
                        constraint_types |-> types.ret,
                        initial_parameters |-> init,
                        model_id |-> model_id(self)]
    IN  IF constraints.err # NoErr
        THEN [err |-> constraints.err, call |-> <<>>, results |-> <<>>]
        ELSE IF types.err # NoErr
        THEN [err |-> types.err, call |-> <<>>, results |-> <<>>]
        ELSE IF outcome = "fail"
        THEN [err |-> Err("RuntimeError", "fit_constrained", <<>>),
              call |-> <<call>>, results |-> <<>>]
        ELSE [err |-> NoErr, call |-> <<call>>,
              results |-> <<SolverResults(irange, n_pixel, n_parameter(self), outcome)>>]

\* result.reshape((npol, npix, -1)): numpy cannot infer the -1 when npol * npix
\* is 0 and raises ValueError
CanReshape(self) == self._data.shape[2] * self._data.shape[3] # 0

\* reshape_result: npol and npix are read from self.data[0].shape
reshape_result(self, result) ==
    LET npol == self._data.shape[2]
        npix == self._data.shape[3]
    IN  Squeeze(Reshape(result, <<npol, npix, Len(result.flat) \div (npol * npix)>>))

\* reshape_results: every array of the solver's output reshaped, the
\* execution time (a float) passed on as it is
reshape_results(self, res) ==
    <<reshape_result(self, res.parameters), reshape_result(self, res.states),
      reshape_result(self, res.chi_squares),
      reshape_result(self, res.number_iterations), res.execution_time>>

\* the result fields, in the order fit_odmr stores them
ResultFields ==
    <<"_fit_results", "_states", "_chi_squares", "_number_iterations",
      "_execution_time">>

\* the np.stack statements of fit_odmr from the i-th on: each replaces a field
\* by the stack of the field and the new result; the first that raises ends
\* the sequence with the fields before it already replaced
RECURSIVE StackFrom(_, _, _)
StackFrom(self, results, i) ==
    IF i > Len(ResultFields) THEN Ok(self)
    ELSE IF ~StackOK(self[ResultFields[i]], results[i])
    THEN Raise(self, Err("ValueError", "all input arrays must have the same shape", <<>>))
    ELSE StackFrom([self EXCEPT ![ResultFields[i]] = Stack2(@, results[i])],
                   results, i + 1)

\* the if / else of the loop body: the first results are assigned, later ones
\* are stacked onto the stored ones
StoreResults(self, results) ==
    IF self._fit_results = None
    THEN Ok([self EXCEPT !._fit_results = results[1], !._states = results[2],
                         !._chi_squares = results[3],
                         !._number_iterations = results[4],
                         !._execution_time = results[5]])
    ELSE StackFrom(self, results, 1)

\* r = [self, err] of a step of fit_odmr, with the solver calls issued so far
WithCalls(r, calls) == [self |-> r.self, err |-> r.err, calls |-> calls]

\* the loop body after fit_frange: fr is what fit_frange gave
AfterFrange(self, fr, calls) ==
    IF fr.err # NoErr THEN WithCalls(Raise(self, fr.err), calls \o fr.call)
    ELSE IF ~CanReshape(self)
    THEN WithCalls(Raise(self, Err("ValueError", "cannot reshape array of size 0", <<>>)),
                   calls \o fr.call)
    ELSE WithCalls(StoreResults(self, reshape_results(self, fr.results[1])),
                   calls \o fr.call)

\* the loop body with a second solver call for a range whose rows did not
\* converge
FitRangeOn_retry(self, calls, irange, outcome) ==
    AfterFrange(self,
                fit_frange(self, irange, Col(self._data, irange), Row(f_ghz, irange),
                           Col(self._initial_parameter, irange), outcome),
                IF outcome = "max_iterations"
                THEN calls \o fit_frange(self, irange, Col(self._data, irange),
                                         Row(f_ghz, irange),
                                         Col(self._initial_parameter, irange),
                                         outcome).call
                ELSE calls)

\* the loop body on the instance with its initial_parameter read
FitRangeOn(self, calls, irange, outcome) ==
    AfterFrange(self,
                fit_frange(self, irange, Col(self._data, irange), Row(f_ghz, irange),
                           Col(self._initial_parameter, irange), outcome),
                calls)

\* one pass of the loop of fit_odmr: st = [self, err, calls]
FitRange(st, irange, outcome) ==
    FitRangeOn(initial_parameter(st.self), st.calls, irange, outcome)

RECURSIVE FitLoop(_, _, _)

\* the loop goes on after a pass that raised nothing
FitLoopNext(nx, irange, outcomes) ==
    IF nx.err # NoErr THEN nx ELSE FitLoop(nx, irange + 1, outcomes)

FitLoop(st, irange, outcomes) ==
    IF irange > st.self._data.shape[2] THEN st
    ELSE FitLoopNext(FitRange(st, irange, outcomes[irange]), irange, outcomes)

\* the statements after the loop: swapaxes on _fit_results, then _fitted
AfterLoop(st) ==
    IF st.err # NoErr THEN st
    ELSE IF NDim(st.self._fit_results) < 2
    THEN [st EXCEPT !.err = Err("AxisError", "axis 1 is out of bounds", <<>>)]
    ELSE [st EXCEPT !.self = [st.self EXCEPT !._fit_results = SwapAxes01(@),
                                             !._fitted = TRUE]]

\* the statements after the loop, run on what an exception left behind as well
AfterLoopCleared(st) ==
    IF st.err # NoErr THEN [st EXCEPT !.self = _reset_fit(@)] ELSE AfterLoop(st)

\* fit_odmr without the early return on a fitted instance
fit_odmr_refit(self, outcomes) ==
    AfterLoop(FitLoop([self |-> self, err |-> NoErr, calls |-> <<>>], 1, outcomes))

\* fit_odmr discarding what the earlier ranges stored when a range raises
fit_odmr_clears(self, outcomes) ==
    IF self._fitted THEN [self |-> self, err |-> NoErr, calls |-> <<>>]
    ELSE AfterLoopCleared(
             FitLoop([self |-> self, err |-> NoErr, calls |-> <<>>], 1, outcomes))

\* fit_odmr; outcomes[r] is what the solver does on the call for range r:
\* [self, err, calls], calls being the solver calls issued, in order
fit_odmr(self, outcomes) ==
    IF self._fitted THEN [self |-> self, err |-> NoErr, calls |-> <<>>]
    ELSE AfterLoop(FitLoop([self |-> self, err |-> NoErr, calls |-> <<>>], 1, outcomes))

(***************************************************************************)
(* Fit.get_param / Fit._param_idx                                          *)
(***************************************************************************)
\* the parameter property: [err, ret]
Fit_parameter(self) == [err |-> NoErr, ret |-> self._fit_results]

\* [i for i, v in enumerate(lst) if v == x], as 1-based positions
Positions(lst, x) ==
    LET RECURSIVE Go(_)
        Go(i) == IF i > Len(lst) THEN <<>>
                 ELSE (IF lst[i] = x THEN <<i>> ELSE <<>>) \o Go(i + 1)
    IN  Go(1)

\* _param_idx without the two aliases
_param_idx_noalias(self, parameter) ==
    LET idx == Positions(fitting_parameter(self), parameter)
        idu == Positions(fitting_parameter_unique(self), parameter)
    IN  IF idx # <<>> THEN [err |-> NoErr, ret |-> idx]
        ELSE IF idu # <<>> THEN [err |-> NoErr, ret |-> idu]
        ELSE [err |-> Err("ValueError", "Unknown parameter", <<parameter>>), ret |-> <<>>]

\* _param_idx: [err, ret]
_param_idx(self, parameter) ==
    LET name == IF parameter = "resonance" THEN "center"
                ELSE IF parameter = "mean_contrast" THEN "contrast"
                ELSE parameter
        idx  == Positions(fitting_parameter(self), name)
        idu  == Positions(fitting_parameter_unique(self), name)
    IN  IF idx # <<>> THEN [err |-> NoErr, ret |-> idx]
        ELSE IF idu # <<>> THEN [err |-> NoErr, ret |-> idu]
        ELSE [err |-> Err("ValueError", "Unknown parameter", <<name>>), ret |-> <<>>]

\* np.mean(a, axis=-1): a cell of the result lists the cells it averages
MeanLast(a) ==
    LET n == a.shape[Len(a.shape)]
    IN  FromFn(SubSeq(a.shape, 1, Len(a.shape) - 1),
               LAMBDA ix : [k \in 1..n |-> At(a, ix \o <<k>>)])

\* get_param without the test of self._fitted
get_param_unguarded(self, param) ==
    IF param \in {"chi2", "chi_squares", "chi_squared"}
    THEN [err |-> NoErr, ret |-> self._chi_squares]
    ELSE LET idx == _param_idx(self, param)
         IN  IF idx.err # NoErr THEN [err |-> idx.err, ret |-> None]
             ELSE IF NDim(self._fit_results) < 4
             THEN [err |-> Err("IndexError", "too many indices for array", <<>>),
                   ret |-> None]
             ELSE IF param = "mean_contrast"
             THEN [err |-> NoErr, ret |-> MeanLast(Take4(self._fit_results, idx.ret))]
             ELSE [err |-> NoErr, ret |-> Take4(self._fit_results, idx.ret)]

\* get_param: [err, ret]
get_param(self, param) ==
    IF ~self._fitted
    THEN [err |-> Err("NotImplementedError", "No fit has been performed yet", <<>>),
          ret |-> None]
    ELSE IF param \in {"chi2", "chi_squares", "chi_squared"}
    THEN [err |-> NoErr, ret |-> self._chi_squares]
    ELSE LET idx == _param_idx(self, param)
         IN  IF idx.err # NoErr THEN [err |-> idx.err, ret |-> None]
             ELSE IF NDim(self._fit_results) < 4
             THEN [err |-> Err("IndexError", "too many indices for array", <<>>),
                   ret |-> None]
             ELSE IF param = "mean_contrast"
             THEN [err |-> NoErr, ret |-> MeanLast(Take4(self._fit_results, idx.ret))]
             ELSE [err |-> NoErr, ret |-> Take4(self._fit_results, idx.ret)]

(***************************************************************************)
(* State: the fields of one Fit instance, the exception the last call on   *)
(* it raised, and the solver calls the last call issued                    *)
(***************************************************************************)
VARIABLES _data, _model, _model_dict, _initial_parameter, _fitted,
          _fit_results, _states, _chi_squares, _number_iterations,
          _execution_time, _constraints, last, calls, nset

fields == <<_data, _model, _model_dict, _initial_parameter, _fitted,
            _fit_results, _states, _chi_squares, _number_iterations,
            _execution_time, _constraints>>

vars == <<fields, last, calls, nset>>

Self ==
    [_data |-> _data, _model |-> _model, _model_dict |-> _model_dict,
     _initial_parameter |-> _initial_parameter, _fitted |-> _fitted,
     _fit_results |-> _fit_results, _states |-> _states,
     _chi_squares |-> _chi_squares, _number_iterations |-> _number_iterations,
     _execution_time |-> _execution_time, _constraints |-> _constraints]

\* the instance after the step
SelfNext ==
    [_data |-> _data', _model |-> _model', _model_dict |-> _model_dict',
     _initial_parameter |-> _initial_parameter', _fitted |-> _fitted',
     _fit_results |-> _fit_results', _states |-> _states',
     _chi_squares |-> _chi_squares', _number_iterations |-> _number_iterations',
     _execution_time |-> _execution_time', _constraints |-> _constraints']

Becomes(s) ==
    /\ _data' = s._data
    /\ _model' = s._model
    /\ _model_dict' = s._model_dict
    /\ _initial_parameter' = s._initial_parameter
    /\ _fitted' = s._fitted
    /\ _fit_results' = s._fit_results
    /\ _states' = s._states
    /\ _chi_squares' = s._chi_squares
    /\ _number_iterations' = s._number_iterations
    /\ _execution_time' = s._execution_time
    /\ _constraints' = s._constraints

Is(s) ==
    /\ _data = s._data
    /\ _model = s._model
    /\ _model_dict = s._model_dict
    /\ _initial_parameter = s._initial_parameter
    /\ _fitted = s._fitted
    /\ _fit_results = s._fit_results
    /\ _states = s._states
    /\ _chi_squares = s._chi_squares
    /\ _number_iterations = s._number_iterations
    /\ _execution_time = s._execution_time
    /\ _constraints = s._constraints

\* the last call on the instance and the exception it raised (NoErr when it
\* returned)
Call(op, err) == [op |-> op, err |-> err]

(***************************************************************************)
(* Arguments the caller passes                                             *)
(***************************************************************************)
ParamInputs == {"contrast", "foo"}

KindInputs == {KNone, KStr("FREE"), KStr("BAD"), KInt(3), KInt(4), KInt(-1)}

BoundInputs == {<<<<1>>, <<2>>>>}

\* the names assigned to fit.model
SetModelInputs == {"GAUSS1D", "ESR14N", "esr14n", "FOO"}

GetParamInputs == {"center", "contrast", "contrast_0", "resonance",
                   "mean_contrast", "chi2", "chi_squares", "chi_squared", "foo"}

\* what the solver does on the calls of one fit_odmr, by frequency range
FitOutcomes == {<<"converged", "max_iterations">>, <<"converged", "fail">>,
                <<"fail", "converged">>}

(***************************************************************************)
(* Actions: one per call on the instance                                   *)
(***************************************************************************)
Init ==
    \E d \in DataSets, m \in ModelNames :
        \E r \in {Fit__init__(d, m)} :
            /\ r.err = NoErr
            /\ Is(r.self)
            /\ last = Call("__init__", NoErr)
            /\ calls = <<>>
            /\ nset = 0

\* fit = Fit(fit.data, f_ghz, m): the caller replaces the instance by a new one
\* on the same data; a failed construction leaves it with the instance it had
New(m) ==
    \E r \in {Fit__init__(_data, m)} :
        /\ IF r.err = NoErr THEN Becomes(r.self) /\ nset' = 0
           ELSE UNCHANGED <<fields, nset>>
        /\ last' = Call("__init__", r.err)
        /\ calls' = <<>>

\* fit.data = d
SetData(d, np_raises) ==
    /\ np_raises => ~Broadcastable(_data.shape, d.shape)
    /\ \E r \in {set_data(Self, d, np_raises)} :
          /\ Becomes(r.self)
          /\ last' = Call("data", r.err)
          /\ calls' = <<>>
          /\ UNCHANGED nset

\* fit.model = m
SetModel(m) ==
    \E r \in {set_model(Self, m)} :
        /\ Becomes(r.self)
        /\ last' = Call("model", r.err)
        /\ calls' = <<>>
        /\ UNCHANGED nset

\* fit.set_constraints(param, vmin, vmax, ct)
SetConstraints(param, vmin, vmax, ct) ==
    /\ nset < MaxSet
    /\ \E r \in {set_constraints(Self, param, vmin, vmax, ct)} :
          /\ Becomes(r.self)
          /\ last' = Call("set_constraints", r.err)
          /\ calls' = <<>>
          /\ nset' = IF r.err = NoErr THEN nset + 1 ELSE nset

\* fit.set_free_constraints()
SetFreeConstraints ==
    /\ nset < MaxSet
    /\ \E r \in {set_free_constraints(Self)} :
          /\ Becomes(r.self)
          /\ last' = Call("set_free_constraints", r.err)
          /\ calls' = <<>>
          /\ nset' = nset + 1

\* fit.fit_odmr()
FitOdmr(outcomes) ==
    \E r \in {fit_odmr(Self, outcomes)} :
        /\ Becomes(r.self)
        /\ last' = Call("fit_odmr", r.err)
        /\ calls' = r.calls
        /\ UNCHANGED nset

\* fit.get_param(param)
GetParam(param) ==
    /\ last' = Call("get_param", get_param(Self, param).err)
    /\ calls' = <<>>
    /\ UNCHANGED <<fields, nset>>

\* fit.initial_parameter
InitialParameter ==
    /\ Becomes(initial_parameter(Self))
    /\ last' = Call("initial_parameter", NoErr)
    /\ calls' = <<>>
    /\ UNCHANGED nset

\* the constraints argument of the constructor: a dict from a parameter family
\* to [min, max, kind], as the list of its items; <<>> is constraints=None
OverrideInputs ==
    {<<>>,
     << <<"contrast", <<1, 2, "FREE">>>> >>,
     << <<"center", <<3, 4, "UPPER">>>>, <<"contrast", <<1, 2, "LOWER">>>> >>}

\* fit = Fit(fit.data, f_ghz, m, constraints)
NewWith(m, constraints) ==
    \E r \in {Fit__init__With(_data, m, constraints)} :
        /\ IF r.err = NoErr THEN Becomes(r.self) /\ nset' = 0
           ELSE UNCHANGED <<fields, nset>>
        /\ last' = Call("__init__", r.err)
        /\ calls' = <<>>

Next ==
    \/ \E m \in ModelNames : New(m)
    \/ \E d \in DataSets, np_raises \in BOOLEAN : SetData(d, np_raises)
    \/ \E m \in SetModelInputs : SetModel(m)
    \/ \E param \in ParamInputs, b \in BoundInputs, ct \in KindInputs :
          SetConstraints(param, b[1], b[2], ct)
    \/ SetFreeConstraints
    \/ \E outcomes \in FitOutcomes : FitOdmr(outcomes)
    \/ \E param \in GetParamInputs : GetParam(param)
    \/ InitialParameter

Spec == Init /\ [][Next]_vars

\* The constraints of an instance: construction with overrides, the model
\* setter and the constraint setters
NextConstraints ==
    \/ \E m \in ModelNames, c \in OverrideInputs : NewWith(m, c)
    \/ \E m \in SetModelInputs : SetModel(m)
    \/ \E param \in ParamInputs, b \in BoundInputs, ct \in KindInputs :
          SetConstraints(param, b[1], b[2], ct)
    \/ SetFreeConstraints

SpecConstraints == Init /\ [][NextConstraints]_vars

\* An instance constructed on a dataset of no pixel
InitEmpty ==
    \E m \in ModelNames :
        \E r \in {Fit__init__(EmptyData, m)} :
            /\ r.err = NoErr
            /\ Is(r.self)
            /\ last = Call("__init__", NoErr)
            /\ calls = <<>>
            /\ nset = 0

NextEmpty ==
    \/ \E m \in ModelNames : New(m)
    \/ \E m \in SetModelInputs : SetModel(m)
    \/ \E param \in ParamInputs, b \in BoundInputs, ct \in KindInputs :
          SetConstraints(param, b[1], b[2], ct)
    \/ SetFreeConstraints
    \/ \E outcomes \in FitOutcomes : FitOdmr(outcomes)
    \/ \E param \in GetParamInputs : GetParam(param)
    \/ InitialParameter

SpecEmpty == InitEmpty /\ [][NextEmpty]_vars

(***************************************************************************)
(* The module functions of QDMpy.core.fit on one frequency range.  No Fit   *)
(* instance is involved: _data holds the data argument ([polarization,     *)
(* pixel, freq_bin], one spectrum), _initial_parameter what the last call  *)
(* returned and last the function called; the other variables keep the     *)
(* values of InitGuess.                                                    *)
(***************************************************************************)
\* an ascending frequency axis, one unit per bin
GuessFreq == NDArray(<<NBins>>, [k \in 1..NBins |-> k])

\* the data argument made of one spectrum
OneSpectrum(sp) == NDArray(<<1, 1, Len(sp)>>, sp)

Lcm(a, b) == (a \div Gcd(a, b)) * b

RECURSIVE LcmOf(_)
LcmOf(xs) == IF xs = <<>> THEN 1 ELSE Lcm(Head(xs), LcmOf(Tail(xs)))

\* lorentzian_peak(f, center, width, contrast) at one frequency x is
\* contrast * width^2 / ((x - center)^2 + width^2); this is its denominator
LorentzDen(x, center, width) == (x - center) * (x - center) + width * width

\* the denominators of the peaks at the centers cs over the whole axis
RECURSIVE LorentzDens(_, _, _)
LorentzDens(cs, width, x) ==
    IF x > NBins THEN <<>>
    ELSE [i \in 1..Len(cs) |-> LorentzDen(x, cs[i], width)] \o LorentzDens(cs, width, x + 1)

\* np.sum(lorentzian_peak(x, cs, width, contrast), axis=0) at one frequency
RECURSIVE PeakSum(_, _, _, _)
PeakSum(x, cs, width, contrast) ==
    IF cs = <<>> THEN 0
    ELSE (contrast * width * width) \div LorentzDen(x, Head(cs), width)
           + PeakSum(x, Tail(cs), width, contrast)

\* the zero-noise spectrum 1 + offset - sum of the peaks, offset 0, with the
\* one contrast of all peaks chosen so that every value is an integer
LorentzSpectrum(cs, width) ==
    [x \in 1..NBins |-> 1 - PeakSum(x, cs, width, LcmOf(LorentzDens(cs, width, 1)))]

\* the hyperfine splitting AHYP of esr15n and esr14n, in frequency bins
AHYP == 1

\* models.esrsingle, models.esr15n, models.esr14n on GuessFreq
esrsingle(center, width) == LorentzSpectrum(<<center>>, width)

esr15n(center, width) == LorentzSpectrum(<<center + AHYP, center - AHYP>>, width)

esr14n(center, width) == LorentzSpectrum(<<center + AHYP, center, center - AHYP>>, width)

\* the spectrum of a registered model with the parameters center and width
ModelSpectrum(model, center, width) ==
    CASE model = "ESRSINGLE" -> esrsingle(center, width)
      [] model = "ESR15N"    -> esr15n(center, width)
      [] OTHER               -> esr14n(center, width)

\* the outermost half-maximum points of the dips of a model
DipLow(model, center, width) ==
    IF model = "ESRSINGLE" THEN center - width ELSE center - AHYP - width

DipHigh(model, center, width) ==
    IF model = "ESRSINGLE" THEN center + width ELSE center + AHYP + width

\* the synthetic spectra: every center on the axis with a half width of one
\* bin, and the dips of two bins half width that lie inside the axis
SyntheticInputs ==
    {<<m, c, 1>> : m \in {"ESRSINGLE", "ESR15N", "ESR14N"}, c \in 1..NBins}
        \cup {<<"ESRSINGLE", c, 2>> : c \in 3..(NBins - 2)}

\* spectra of dips only (values 1, 0 and -1), the flat one among them
DipSpectra == [1..NBins -> {-1, 0, 1}]

\* the data argument for each synthetic spectrum, built once
SyntheticData ==
    [i \in SyntheticInputs |-> OneSpectrum(ModelSpectrum(i[1], i[2], i[3]))]

GuessInputs ==
    {SyntheticData[i] : i \in SyntheticInputs}
        \cup {OneSpectrum(sp) : sp \in DipSpectra}

InitGuess ==
    /\ _data \in GuessInputs
    /\ _initial_parameter = None
    /\ last = Call("input", NoErr)
    /\ _model = NoneStr
    /\ _model_dict = IMPLEMENTED.ESRSINGLE
    /\ _fitted = FALSE
    /\ _fit_results = None
    /\ _states = None
    /\ _chi_squares = None
    /\ _number_iterations = None
    /\ _execution_time = None
    /\ _constraints = EmptyDict
    /\ calls = <<>>
    /\ nset = 0

\* what a call of a module function leaves alone
GuessFrame ==
    UNCHANGED <<_data, _model, _model_dict, _fitted, _fit_results, _states,
                _chi_squares, _number_iterations, _execution_time, _constraints,
                calls, nset>>

\* guess_center_freq_single(data, freq)
GuessCenterFreqSingle ==
    /\ _initial_parameter' = guess_center_freq_single(_data, GuessFreq)
    /\ last' = Call("guess_center_freq_single", NoErr)
    /\ GuessFrame

\* guess_width_single(data, freq)
GuessWidthSingle ==
    /\ _initial_parameter' = guess_width_single(_data, GuessFreq)
    /\ last' = Call("guess_width_single", NoErr)
    /\ GuessFrame

NextGuess ==
    \/ GuessCenterFreqSingle
    \/ GuessWidthSingle

SpecGuess == InitGuess /\ [][NextGuess]_vars

(***************************************************************************)
(* Properties                                                              *)
(***************************************************************************)
\* the stored results: parameters, state codes, chi-squares, iteration counts,
\* wall time
Results ==
    <<_fit_results, _states, _chi_squares, _number_iterations, _execution_time>>

ResultsOf(s) ==
    <<s._fit_results, s._states, s._chi_squares, s._number_iterations,
      s._execution_time>>

NoResults == <<None, None, None, None, None>>

\* C1, as the specification states it: on a fitted instance, assigning a
\* different array to data, assigning the model so that the stored model
\* changes, or a successful set_constraints call leaves the instance unfitted
\* with every stored result None.
C1_MutationClearsResults ==
    [][(/\ _fitted
        /\ \/ /\ last'.op = "data"
              /\ last'.err = NoErr
              /\ \E d \in DataSets : d # _data /\ SetData(d, FALSE)
           \/ /\ last'.op = "model"
              /\ _model' # _model
              /\ \E m \in SetModelInputs : SetModel(m)
           \/ /\ last'.op = "set_constraints"
              /\ last'.err = NoErr
              /\ \E p \in ParamInputs, b \in BoundInputs, ct \in KindInputs :
                    SetConstraints(p, b[1], b[2], ct))
       => (~_fitted' /\ Results' = NoResults)]_vars

\* C2: fit_odmr on a fitted instance issues no solver call, raises nothing and
\* leaves every field of the instance (fitted and the stored results among
\* them) unchanged.
C2_FitIdempotent ==
    [][\A o \in FitOutcomes :
          (_fitted /\ last'.op = "fit_odmr" /\ FitOdmr(o))
          => (calls' = <<>> /\ last'.err = NoErr /\ UNCHANGED fields)]_vars

\* a fit_odmr call that returned without a solver call, on a fitted instance
C2_Witness ==
    /\ last = Call("fit_odmr", NoErr)
    /\ calls = <<>>
    /\ _fitted
    /\ Results # NoResults

\* C3, as the specification states it: whenever fitted is false, every stored
\* result is None.
C3_UnfittedHasNoResults == ~_fitted => Results = NoResults

\* C4: when a solver call of fit_odmr fails, it is the last call fit_odmr
\* issues, fit_odmr raises the solver's exception, the instance stays unfitted,
\* and the stored results are those the ranges before the failed one left
\* (the results as they were when the first range fails, the results after the
\* first range when the second fails).
C4_FailedRangeKeepsEarlier ==
    [][\A o \in FitOutcomes :
          (/\ last'.op = "fit_odmr"
           /\ FitOdmr(o)
           /\ \E j \in 1..Len(calls') : o[calls'[j].irange] = "fail")
          => LET k == Len(calls')
                 start == [self |-> Self, err |-> NoErr, calls |-> <<>>]
             IN  /\ calls'[k].irange = k
                 /\ o[k] = "fail"
                 /\ ErrType(last'.err) = "RuntimeError"
                 /\ ~_fitted'
                 /\ Results' = IF k = 1 THEN Results
                               ELSE ResultsOf(FitRange(start, 1, o[1]).self)]_vars

\* fit_odmr raised on the second range after the first range stored its results
C4_Witness ==
    /\ last.op = "fit_odmr"
    /\ ErrType(last.err) = "RuntimeError"
    /\ Len(calls) = 2
    /\ ~_fitted
    /\ _fit_results # None
    /\ \A k \in 1..Len(_fit_results.flat) : _fit_results.flat[k][1] = 1

\* C5, as the specification states it: assigning to data an array that differs
\* from the current one sets fitted to false and empties the cached guess, and
\* the next access of initial_parameter yields the guess of the new array.
C5_DifferentDataResets ==
    [][\A d \in DataSets, b \in BOOLEAN :
          (last'.op = "data" /\ d # _data /\ SetData(d, b))
          => /\ ~_fitted'
             /\ _initial_parameter' = None
             /\ initial_parameter(SelfNext)._initial_parameter
                    = InitialParameterOf(d, fitting_parameter(Self))]_vars

\* C6: while the instance is not fitted, get_param raises NotImplementedError
\* and returns nothing, for every name.
C6_GetParamNeedsFit ==
    ~_fitted =>
        /\ \A p \in GetParamInputs :
              /\ ErrType(get_param(Self, p).err) = "NotImplementedError"
              /\ get_param(Self, p).ret = None
        /\ last.op = "get_param" => ErrType(last.err) = "NotImplementedError"

\* get_param was called on an instance that is not fitted
C6_Witness ==
    /\ last.op = "get_param"
    /\ ErrType(last.err) = "NotImplementedError"
    /\ ~_fitted

\* the exception names every registered model
ListsRegistered(err) ==
    /\ ErrType(err) = "ValueError"
    /\ \A n \in {"GAUSS1D", "ESR14N", "ESR15N", "ESRSINGLE"} : InList(err, n)

\* C7: constructing a Fit, or assigning the model, with a name that is no
\* registered model in any letter case raises a ValueError that lists the
\* registered names; the setter then leaves every field of the instance (model,
\* cached guess, constraints, results) unchanged.
C7_UnknownModelRejected ==
    /\ DOMAIN IMPLEMENTED = {"GAUSS1D", "ESR14N", "ESR15N", "ESRSINGLE"}
    /\ [][\A m \in ModelNames :
             Upper(m) \notin DOMAIN IMPLEMENTED
             => /\ (last'.op = "__init__" /\ New(m)) => ListsRegistered(last'.err)
                /\ (last'.op = "model" /\ m \in SetModelInputs /\ SetModel(m))
                   => (ListsRegistered(last'.err) /\ UNCHANGED fields)]_vars

\* the setter rejected a name on a fitted instance with a cached guess
C7_Witness ==
    /\ last.op = "model"
    /\ ListsRegistered(last.err)
    /\ _fitted
    /\ _initial_parameter # None
    /\ Results # NoResults

\* u names the entries of the template t: as many entries, in order, pairwise
\* distinct, the bare name for a kind that occurs once and kind_k for the k-th
\* occurrence (from 0) of a repeated kind
SlotsNamed(t, u) ==
    /\ Len(u) = Len(t)
    /\ \A i, j \in 1..Len(u) : i # j => u[i] # u[j]
    /\ \A i \in 1..Len(t) :
          u[i] = IF Count(t, t[i]) = 1 THEN t[i]
                 ELSE t[i] \o "_" \o ToString(Cardinality({j \in 1..(i - 1) : t[j] = t[i]}))

\* C8: for every registered model, and for the model of the instance,
\* fitting_parameter_unique names the template entries one by one (SlotsNamed);
\* ESR14N gives center, width, contrast_0, contrast_1, contrast_2, offset.
C8_UniqueSlots ==
    /\ \A n \in DOMAIN IMPLEMENTED :
          SlotsNamed(IMPLEMENTED[n].params, UniqueOf(IMPLEMENTED[n].params))
    /\ UniqueOf(IMPLEMENTED["ESR14N"].params)
          = <<"center", "width", "contrast_0", "contrast_1", "contrast_2", "offset">>
    /\ SlotsNamed(fitting_parameter(Self), fitting_parameter_unique(Self))

\* an instance switched to ESR14N, whose template repeats contrast three times
C8_Witness ==
    /\ last = Call("model", NoErr)
    /\ _model_dict.func_name = "ESR14N"
    /\ Count(fitting_parameter(Self), "contrast") = 3
    /\ fitting_parameter_unique(Self)[5] = "contrast_2"

\* the unique slots of the kind "contrast" in the model of the instance
ContrastSlots ==
    {fitting_parameter_unique(Self)[i] :
        i \in {j \in 1..n_parameter(Self) : fitting_parameter(Self)[j] = "contrast"}}

\* C9: a successful set_constraints("contrast", a, b, kind) stores the same
\* (a, b, kind) on every unique contrast slot of the model (contrast_0,
\* contrast_1, contrast_2 on ESR14N), leaves every other stored constraint as
\* it was and adds no key besides the contrast slots.
C9_ContrastFansOut ==
    [][\A b \in BoundInputs, ct \in KindInputs :
          (/\ last'.op = "set_constraints"
           /\ last'.err = NoErr
           /\ SetConstraints("contrast", b[1], b[2], ct))
          => /\ _model_dict.func_name = "ESR14N"
                => ContrastSlots = {"contrast_0", "contrast_1", "contrast_2"}
             /\ DOMAIN _constraints' = DOMAIN _constraints \cup ContrastSlots
             /\ \A k \in DOMAIN _constraints \ ContrastSlots :
                   _constraints'[k] = _constraints[k]
             /\ \A k \in ContrastSlots :
                   /\ _constraints'[k].vmin = b[1]
                   /\ _constraints'[k].vmax = b[2]
                   /\ ct.t = "str" => _constraints'[k].ct = ct.s
                   /\ \A k2 \in ContrastSlots : _constraints'[k2] = _constraints'[k]]_vars

\* set_constraints("contrast", 1, 2, "FREE") returned on an ESR14N instance
C9_Witness ==
    /\ last = Call("set_constraints", NoErr)
    /\ _model_dict.func_name = "ESR14N"
    /\ \A k \in {"contrast_0", "contrast_1", "contrast_2"} :
          /\ k \in DOMAIN _constraints
          /\ _constraints[k].vmin = <<1>>
          /\ _constraints[k].ct = "FREE"
    /\ _constraints["center"].vmin = default_constraints["center_min"]

\* a kind set_constraints is specified to accept: one of the four names, or an
\* integer 0..3 (None stands for an omitted kind)
AcceptedKind(ct) ==
    \/ ct.t = "none"
    \/ ct.t = "str" /\ InList(CONSTRAINT_TYPES, ct.s)
    \/ ct.t = "int" /\ ct.i \in 0..3

\* C10, as the specification states it: set_constraints with any other kind
\* raises and leaves every field of the instance unchanged.
C10_OtherKindsRejected ==
    [][\A p \in ParamInputs, b \in BoundInputs, ct \in KindInputs :
          (/\ last'.op = "set_constraints"
           /\ ~AcceptedKind(ct)
           /\ SetConstraints(p, b[1], b[2], ct))
          => (last'.err # NoErr /\ UNCHANGED fields)]_vars

\* the row counts get_constraints_array is asked for: polarizations x pixels
RowCounts == 1..(NPol * MaxPix)

\* C11, as the specification states it: in every reachable state every unique
\* slot of the current model has a stored constraint, so that
\* get_constraints_array(n) returns an array of 2 x (number of unique slots)
\* columns.
C11_EverySlotConstrained ==
    \A n \in RowCounts :
        /\ MissingSlots(Self) = {}
        /\ get_constraints_array(Self, n).err = NoErr
        /\ get_constraints_array(Self, n).ret.shape
               = <<n, 2 * Len(fitting_parameter_unique(Self))>>

\* C12: whenever get_constraints_array(n) returns, its result has n rows and
\* 2 x num_slots columns, and in every row the columns 2k-1 and 2k (counted
\* from 1) are the stored min and max of the k-th unique slot; the constraints
\* a solver call received are that array, converted to float32.
C12_ConstraintRows ==
    /\ \A n \in RowCounts :
          LET r == get_constraints_array(Self, n)
              u == fitting_parameter_unique(Self)
          IN  r.err = NoErr =>
                /\ r.ret.shape = <<n, 2 * Len(u)>>
                /\ \A i \in 1..n, k \in 1..Len(u) :
                      /\ At(r.ret, <<i, 2 * k - 1>>) = _constraints[u[k]].vmin
                      /\ At(r.ret, <<i, 2 * k>>) = _constraints[u[k]].vmax
    /\ last.op = "fit_odmr" =>
          \A j \in 1..Len(calls) :
              calls[j].constraints
                  = ToFloat(get_constraints_array(Self, calls[j].data.shape[1]).ret)

\* fit_odmr passed the constraints array of an ESR14N instance, bounds set by
\* set_constraints("contrast", 1, 2, ...), to the solver
C12_Witness ==
    /\ last.op = "fit_odmr"
    /\ Len(calls) = 2
    /\ _model_dict.func_name = "ESR14N"
    /\ calls[1].constraints.shape = <<NPol * _data.shape[3], 12>>
    /\ At(calls[1].constraints, <<1, 5>>) = Rat(1, 1)
    /\ At(calls[1].constraints, <<1, 6>>) = Rat(2, 1)

\* C13, as the specification states it: in every state where every unique slot
\* has a stored constraint, get_constraint_types returns one integer per unique
\* slot, in slot order, the index of the slot's stored kind in CONSTRAINT_TYPES.
C13_KindIndices ==
    MissingSlots(Self) = {} =>
        LET r == get_constraint_types(Self)
            u == fitting_parameter_unique(Self)
        IN  /\ r.err = NoErr
            /\ Len(r.ret) = Len(u)
            /\ \A k \in 1..Len(u) :
                  /\ r.ret[k] \in 0..3
                  /\ CONSTRAINT_TYPES[r.ret[k] + 1] = _constraints[u[k]].ct

\* the unique slots of a parameter family in the model of the instance after
\* the step
SlotsOfNext(family) ==
    {fitting_parameter_unique(SelfNext)[i] :
        i \in {j \in 1..n_parameter(SelfNext) : fitting_parameter(SelfNext)[j] = family}}

\* C14, as the specification states it: after Fit(data, f, model, constraints)
\* every slot of a family the constraints argument names carries the min, max
\* and kind given for the family, and the slots of the other families carry
\* the configured defaults.
C14_OverridesStored ==
    [][\A m \in ModelNames, c \in OverrideInputs :
          (last'.op = "__init__" /\ last'.err = NoErr /\ NewWith(m, c))
          => \A family \in DOMAIN UNITS : \A slot \in SlotsOfNext(family) :
                /\ slot \in DOMAIN _constraints'
                /\ IF \E i \in 1..Len(c) : c[i][1] = family
                   THEN \A i \in 1..Len(c) : c[i][1] = family =>
                          /\ _constraints'[slot].vmin = <<c[i][2][1]>>
                          /\ _constraints'[slot].vmax = <<c[i][2][2]>>
                          /\ _constraints'[slot].ct = c[i][2][3]
                   ELSE /\ _constraints'[slot].vmin = default_constraints[family \o "_min"]
                        /\ _constraints'[slot].vmax = default_constraints[family \o "_max"]
                        /\ _constraints'[slot].ct = default_constraints[family \o "_type"]]_vars

\* the solver row of (polarization p, pixel x) when a range has npix pixels
SolverRow(p, x, npix) == (p - 1) * npix + x

\* C15: fit_odmr on an unfitted instance issues its solver calls one per
\* frequency range in increasing range index, the j-th with the data, the
\* frequency axis and the initial guess of range j; a call that returns is
\* never repeated, whatever state codes it returned, so a fit_odmr that
\* returns has issued exactly one call per range; and _fitted becomes true
\* exactly when the call of the last range has returned.
C15_OneCallPerRange ==
    [][\A o \in FitOutcomes :
          (~_fitted /\ last'.op = "fit_odmr" /\ FitOdmr(o))
          => /\ Len(calls') <= NFrange
             /\ \A j \in 1..Len(calls') :
                   /\ calls'[j].irange = j
                   /\ \A i \in 1..(j - 1) : o[i] # "fail"
                   /\ calls'[j].user_info.shape = <<NFreq>>
                   /\ \A f \in 1..NFreq :
                         At(calls'[j].user_info, <<f>>) = At(f_ghz, <<j, f>>)
                   /\ \A p \in 1..NPol, x \in 1.._data.shape[3] :
                         /\ \A f \in 1..NFreq :
                               At(calls'[j].data, <<SolverRow(p, x, _data.shape[3]), f>>)
                                   = At(_data, <<p, j, x, f>>)
                         /\ \A k \in 1..n_parameter(Self) :
                               At(calls'[j].initial_parameters,
                                  <<SolverRow(p, x, _data.shape[3]), k>>)
                                   = At(_initial_parameter', <<p, j, x, k>>)
             /\ last'.err = NoErr => Len(calls') = NFrange
             /\ Len(calls') < NFrange => last'.err # NoErr
             /\ _fitted' <=> (last'.err = NoErr /\ Len(calls') = NFrange)]_vars

\* a fit on two ranges that returned, the second range with rows that did not
\* converge
C15_Witness ==
    /\ last = Call("fit_odmr", NoErr)
    /\ _fitted
    /\ Len(calls) = NFrange
    /\ calls[1].irange = 1 /\ calls[2].irange = 2
    /\ calls[1].data # calls[2].data
    /\ \E k \in 1..Len(_states.flat) : _states.flat[k][1] = 2 /\ _states.flat[k][3] = 3

\* row i of a two-dimensional array, as a list
RowOf(a, i) == [k \in 1..a.shape[2] |-> At(a, <<i, k>>)]

\* the arguments of one solver call, c, for range j of the instance: the
\* shapes, and the rows of (polarization p, pixel x)
CallShapes(c, n, slots) ==
    /\ c.data.shape = <<n, _data.shape[4]>>
    /\ c.initial_parameters.shape = <<n, slots>>
    /\ c.constraints.shape = <<n, 2 * slots>>
    /\ Len(c.constraint_types) = slots
    /\ c.user_info.shape = <<_data.shape[4]>>

CallRow(c, j, i, p, x) ==
    /\ RowOf(c.data, i) = [f \in 1.._data.shape[4] |-> At(_data, <<p, j, x, f>>)]
    /\ RowOf(c.initial_parameters, i)
          = [k \in 1..n_parameter(Self) |-> At(_initial_parameter, <<p, j, x, k>>)]
    /\ \A k \in 1..n_parameter(Self) :
          fitting_parameter(Self)[k] = "center" =>
              At(c.initial_parameters, <<i, k>>)
                  = Rat(c.user_info.flat[NearestIdx(normalized_cumsum(RowOf(c.data, i)),
                                                    <<1, 2>>)], 1)
    /\ RowOf(c.constraints, i) = RowOf(c.constraints, 1)

\* C16: every solver call of fit_frange gets, with n = polarizations x pixels,
\* n rows of n_freq data values, n rows of num_slots initial parameters, n rows
\* of 2 * num_slots constraint bounds, num_slots constraint kinds and n_freq
\* frequencies; and row i of the data, of the initial parameters and of the
\* constraints are those of one (polarization, pixel).
C16_SolverArguments ==
    last.op = "fit_odmr" =>
        \A j \in 1..Len(calls) :
            /\ CallShapes(calls[j], NPol * _data.shape[3], n_parameter(Self))
            /\ \A p \in 1..NPol, x \in 1.._data.shape[3] :
                  CallRow(calls[j], j, SolverRow(p, x, _data.shape[3]), p, x)

\* a call for two pixels whose spectra give different guesses
C16_Witness ==
    /\ last.op = "fit_odmr"
    /\ Len(calls) = NFrange
    /\ _data.shape[3] = 2
    /\ calls[1].data.shape = <<2 * NPol, NFreq>>
    /\ RowOf(calls[1].initial_parameters, 1) # RowOf(calls[1].initial_parameters, 2)
    /\ RowOf(calls[1].data, 2) # RowOf(calls[1].data, 4)

\* C17, as the specification states it: after a fit that returned, on a
\* dataset of one or more pixels, the stored parameters are indexed
\* [polarization, range, pixel, slot], and the vector at [p, r, x] is the
\* output row the solver gave, in the call of range r, for the spectrum
\* data[p, r, x].
C17_ParametersAtPixel ==
    (last = Call("fit_odmr", NoErr) /\ _fitted) =>
        /\ _fit_results.shape = <<NPol, NFrange, _data.shape[3], n_parameter(Self)>>
        /\ \A p \in 1..NPol, r \in 1..NFrange, x \in 1.._data.shape[3] :
              \A k \in 1..n_parameter(Self) :
                  At(_fit_results, <<p, r, x, k>>)
                      = <<r, SolverRow(p, x, _data.shape[3]), k>>

\* the entry at [p, r, x] of a map a is the solver's value, in the call of
\* range r, for the spectrum data[p, r, x]
MapAtPixel(a) ==
    /\ a.shape = <<NPol, NFrange, _data.shape[3]>>
    /\ \A p \in 1..NPol, r \in 1..NFrange, x \in 1.._data.shape[3] :
          /\ At(a, <<p, r, x>>)[1] = r
          /\ At(a, <<p, r, x>>)[2] = SolverRow(p, x, _data.shape[3])

\* C18, as the specification states it, on datasets of two or more pixels:
\* after a fit that returned, get_param of a chi-square name returns a map
\* indexed [polarization, range, pixel] like the parameters, and so are the
\* stored state codes and iteration counts.
C18_MapsLikeParameters ==
    (last = Call("fit_odmr", NoErr) /\ _fitted /\ _data.shape[3] >= 2) =>
        /\ \A name \in {"chi2", "chi_squares", "chi_squared"} :
              /\ get_param(Self, name).err = NoErr
              /\ MapAtPixel(get_param(Self, name).ret)
        /\ MapAtPixel(_states)
        /\ MapAtPixel(_number_iterations)

\* C19, as the specification states it: on a single-pixel dataset with the
\* model ESRSINGLE, after a fit that returned, get_param("center") and
\* get_param("contrast") return one value per [polarization, range], the
\* value the solver fitted in the call of range r for the spectrum of
\* polarization p.
C19_SinglePixelParameters ==
    (last = Call("fit_odmr", NoErr) /\ _fitted /\ _model = "ESRSINGLE"
                                    /\ _data.shape[3] = 1) =>
        \A name \in {"center", "contrast"} :
            /\ get_param(Self, name).err = NoErr
            /\ Len(get_param(Self, name).ret.flat) = NPol * NFrange
            /\ \A p \in 1..NPol, r \in 1..NFrange :
                  get_param(Self, name).ret.flat[(p - 1) * NFrange + r]
                      = <<r, SolverRow(p, 1, 1), Positions(fitting_parameter(Self), name)[1]>>

\* the names _param_idx is asked for: the kinds, every unique slot name of a
\* registered model, the two aliases, and names no model has
LookupNames ==
    DOMAIN UNITS
        \cup UNION {{UniqueTable[n][i] : i \in 1..Len(UniqueTable[n])} : n \in DOMAIN IMPLEMENTED}
        \cup {"resonance", "mean_contrast", "foo", "contrast_3", "Center", "chi2"}

\* idx lists exactly the positions in where, in ascending order
ListsPositions(idx, where) ==
    /\ \A i \in 1..Len(idx) : idx[i] \in where
    /\ \A i \in 1..(Len(idx) - 1) : idx[i] < idx[i + 1]
    /\ \A w \in where : \E i \in 1..Len(idx) : idx[i] = w

\* the positions of the template, or of the unique slot names, that carry name
TemplatePositions(name) ==
    {i \in 1..n_parameter(Self) : fitting_parameter(Self)[i] = name}

SlotPositions(name) ==
    {i \in 1..n_parameter(Self) : fitting_parameter_unique(Self)[i] = name}

\* C20: in every registered model _param_idx gives for a kind name the
\* template positions of the kind in ascending order, for a unique slot name
\* the one position of the slot, for resonance what it gives for center, for
\* mean_contrast the positions of all contrast slots, and for any other name a
\* lookup error (ValueError).
C20_ParamIdx ==
    \A name \in LookupNames :
        IF name = "resonance"
        THEN _param_idx(Self, name) = _param_idx(Self, "center")
        ELSE IF name = "mean_contrast"
        THEN /\ _param_idx(Self, name).err = NoErr
             /\ ListsPositions(_param_idx(Self, name).ret, TemplatePositions("contrast"))
        ELSE IF TemplatePositions(name) # {}
        THEN /\ _param_idx(Self, name).err = NoErr
             /\ ListsPositions(_param_idx(Self, name).ret, TemplatePositions(name))
        ELSE IF SlotPositions(name) # {}
        THEN /\ _param_idx(Self, name).err = NoErr
             /\ Len(_param_idx(Self, name).ret) = 1
             /\ Cardinality(SlotPositions(name)) = 1
             /\ _param_idx(Self, name).ret[1] \in SlotPositions(name)
        ELSE /\ ErrType(_param_idx(Self, name).err) = "ValueError"
             /\ _param_idx(Self, name).ret = <<>>

\* the model with three contrast slots: a kind with several positions, a
\* unique slot name, both aliases and an unknown name, after a get_param on
\* the fitted instance that ended in the lookup error
C20_Witness ==
    /\ _model_dict.func_name = "ESR14N"
    /\ _fitted
    /\ last.op = "get_param" /\ ErrType(last.err) = "ValueError"
    /\ _param_idx(Self, "contrast").ret = <<3, 4, 5>>
    /\ _param_idx(Self, "mean_contrast").ret = <<3, 4, 5>>
    /\ _param_idx(Self, "contrast_1").ret = <<4>>
    /\ _param_idx(Self, "resonance").ret = <<1>>
    /\ _param_idx(Self, "contrast_3").err # NoErr

\* the spectrum data[p, r, x] and the frequency axis of range r, as lists
SpectrumAt(p, r, x) == [f \in 1.._data.shape[4] |-> At(_data, <<p, r, x, f>>)]

FreqOf(r) == [f \in 1..f_ghz.shape[2] |-> At(f_ghz, <<r, f>>)]

\* the guess of a kind from one spectrum sp on the frequencies fr
KindGuess(kind, sp, fr) ==
    CASE kind = "center" ->
           Rat(fr[NearestIdx(normalized_cumsum(sp), <<1, 2>>)], 1)
      [] kind = "width" ->
           Rat(fr[NearestIdx(normalized_cumsum(sp), <<1, 4>>)]
                 - fr[NearestIdx(normalized_cumsum(sp), <<3, 4>>)], 6)
      [] kind = "contrast" ->
           Rat(9 * RatAbs(Rat(SeqMax(sp) - SeqMin(sp), SeqMax(sp)))[1],
               10 * RatAbs(Rat(SeqMax(sp) - SeqMin(sp), SeqMax(sp)))[2])
      [] OTHER -> Rat(0, 1)

\* C21: the initial guess is indexed [polarization, range, pixel, slot] with
\* the slots in template order; the entry of a slot is the guess of its kind
\* from the spectrum data[p, r, x] and the frequencies of range r, so the
\* slots of one kind carry one value, and every offset slot is 0.
C21_InitialGuessLayout ==
    _initial_parameter # None =>
        /\ _initial_parameter.shape
              = <<_data.shape[1], _data.shape[2], _data.shape[3], n_parameter(Self)>>
        /\ \A p \in 1.._data.shape[1], r \in 1.._data.shape[2], x \in 1.._data.shape[3] :
              \A k \in 1..n_parameter(Self) :
                  /\ At(_initial_parameter, <<p, r, x, k>>)
                        = KindGuess(fitting_parameter(Self)[k], SpectrumAt(p, r, x), FreqOf(r))
                  /\ fitting_parameter(Self)[k] = "offset"
                        => At(_initial_parameter, <<p, r, x, k>>) = Rat(0, 1)
                  /\ \A k2 \in 1..n_parameter(Self) :
                        fitting_parameter(Self)[k2] = fitting_parameter(Self)[k]
                        => At(_initial_parameter, <<p, r, x, k2>>)
                              = At(_initial_parameter, <<p, r, x, k>>)

\* the guess of a model with three contrast slots on spectra whose dip moves
\* with polarization, range and pixel, read through the property
C21_Witness ==
    /\ last = Call("initial_parameter", NoErr)
    /\ _model_dict.func_name = "ESR14N"
    /\ _data = MkData(2, "varied")
    /\ _initial_parameter # None
    /\ At(_initial_parameter, <<1, 2, 1, 1>>) # At(_initial_parameter, <<2, 1, 1, 1>>)
    /\ At(_initial_parameter, <<1, 1, 1, 2>>) # At(_initial_parameter, <<1, 1, 2, 2>>)
    /\ At(_initial_parameter, <<1, 1, 1, 3>>) = At(_initial_parameter, <<1, 1, 1, 5>>)

\* the dips of the synthetic spectrum i = <<model, center, width>> lie inside
\* the frequency axis
DipInside(i) ==
    /\ DipLow(i[1], i[2], i[3]) >= GuessFreq.flat[1]
    /\ DipHigh(i[1], i[2], i[3]) <= GuessFreq.flat[NBins]

\* the last call was fn on the synthetic spectrum i
GuessedOn(fn, i) ==
    /\ last.op = fn
    /\ _data = SyntheticData[i]

UndefinedCurve(sp) ==
    SeqMax(CumsumM1(sp, Len(sp))) = SeqMin(CumsumM1(sp, Len(sp)))

\* C23, as the specification states it: on a spectrum whose normalized
\* cumulative curve is undefined the guess functions apply an explicit
\* policy: the call signals an error, or what it returns marks the pixel
\* invalid (not a number); no frequency read off the undefined curve is
\* returned as a seed.
C23_DegeneratePolicy ==
    (/\ last.op \in {"guess_center_freq_single", "guess_width_single"}
     /\ UndefinedCurve(Spectrum(_data, 1, 1)))
    => \/ last.err # NoErr
       \/ IsNaN(At(_initial_parameter, <<1, 1>>))

\* C24, as the specification states it: a dataset of no pixel (or of no
\* frequency bin) is rejected before any solver call, so no solver call ever
\* receives zero rows or zero frequency bins.
C24_NoEmptySolverCall ==
    /\ (_data.shape[3] = 0 \/ _data.shape[4] = 0) => calls = <<>>
    /\ \A j \in 1..Len(calls) :
          /\ calls[j].data.shape[1] > 0
          /\ calls[j].data.shape[2] > 0

\* C25, as the specification states it: while the instance is not fitted the
\* parameter property signals an error, as get_param does; it returns neither
\* None nor the results a failed fit left behind.
C25_ParameterNeedsFit ==
    ~_fitted =>
        /\ Fit_parameter(Self).err # NoErr
        /\ get_param(Self, "center").err # NoErr

\* the guess the next fit_odmr on the instance after the step will use
NextFitGuess == initial_parameter(SelfNext)._initial_parameter

\* C26, as the specification states it: after a mutation of the data, of the
\* model or of the constraints that returned, the cached guess is gone or
\* renewed, so that the guess the next fit uses is the one computed from the
\* data and the model the mutation left.
C26_MutationRefreshesGuess ==
    [][/\ \A d \in DataSets, b \in BOOLEAN :
             (last'.op = "data" /\ last'.err = NoErr /\ d # _data /\ SetData(d, b))
             => NextFitGuess = InitialParameterTable[d][_model_dict'.func_name]
       /\ \A m \in SetModelInputs :
             (last'.op = "model" /\ last'.err = NoErr /\ SetModel(m))
             => NextFitGuess = InitialParameterTable[_data][Upper(m)]
       /\ (last'.op \in {"set_constraints", "set_free_constraints"} /\ last'.err = NoErr)
             => NextFitGuess = InitialParameterTable[_data][_model_dict'.func_name]]_vars

\* C27, as the specification states it: a fit_odmr call whose solver calls all
\* succeed, made right after a fit_odmr call that failed during some range,
\* ends with the stored results a fit with the same solver outcomes leaves on
\* an instance with the same data, model and constraints and no results yet.
C27_RetryLikeFresh ==
    [][\A o \in FitOutcomes :
          (/\ last.op = "fit_odmr"
           /\ ErrType(last.err) = "RuntimeError"
           /\ \A r \in 1..Len(o) : o[r] # "fail"
           /\ FitOdmr(o))
          => /\ last'.err = NoErr
             /\ Results' = ResultsOf(fit_odmr(_reset_fit(Self), o).self)]_vars

\* C28, as the specification states it: assigning to model a name that is
\* registered in some letter case succeeds and selects that model, and after
\* every assignment, successful or failed, the stored name and the stored
\* entry are those of one registered model, so that model_params and
\* fitting_parameter agree.
C28_ModelSetterAtomic ==
    [][\A m \in SetModelInputs :
          (last'.op = "model" /\ SetModel(m))
          => /\ Upper(m) \in DOMAIN IMPLEMENTED
                => /\ last'.err = NoErr
                   /\ _model' = Upper(m)
                   /\ _model_dict' = IMPLEMENTED[Upper(m)]
             /\ _model' \in DOMAIN IMPLEMENTED
             /\ _model_dict' = IMPLEMENTED[_model']
             /\ model_params(SelfNext) = fitting_parameter(SelfNext)]_vars

\* C29, as the specification states it: a set_constraints call with the
\* constraint type left out keeps the stored kind of every slot it writes, and
\* set_free_constraints sets the kind of every unique slot to FREE and leaves
\* the stored min and max of every slot as they were.
C29_OmittedFieldsKept ==
    [][/\ \A param \in ParamInputs, b \in BoundInputs :
             (/\ last'.op = "set_constraints"
              /\ last'.err = NoErr
              /\ SetConstraints(param, b[1], b[2], KNone))
             => \A slot \in DOMAIN _constraints :
                    _constraints'[slot].ct = _constraints[slot].ct
       /\ (last'.op = "set_free_constraints" /\ last'.err = NoErr /\ SetFreeConstraints)
             => /\ \A k \in 1..Len(fitting_parameter_unique(SelfNext)) :
                       _constraints'[fitting_parameter_unique(SelfNext)[k]].ct = "FREE"
                /\ \A slot \in DOMAIN _constraints :
                       /\ _constraints'[slot].vmin = _constraints[slot].vmin
                       /\ _constraints'[slot].vmax = _constraints[slot].vmax]_vars

\* every value of the spectrum is at most 1, and the values are not all equal
DipsNotFlat(sp) ==
    /\ \A k \in 1..Len(sp) : sp[k] <= 1
    /\ \E k \in 1..Len(sp) : sp[k] # sp[1]

\* the indices guess_width_single reads the frequencies at
WidthIdx(q) == NearestIdx(normalized_cumsum(Spectrum(_data, 1, 1)), q)

\* C30: for a spectrum of values at most 1 that is not flat, on the ascending
\* frequency axis, the index nearest to the normalized cumulative value 0.25
\* (first index on ties) is not smaller than the index nearest to 0.75, and
\* the width guess, the difference of the frequencies at the two, is a
\* number that is not negative.
C30_WidthNonNegative ==
    (last.op = "guess_width_single" /\ DipsNotFlat(Spectrum(_data, 1, 1)))
    => /\ WidthIdx(<<1, 4>>) >= WidthIdx(<<3, 4>>)
       /\ IsFinite(At(_initial_parameter, <<1, 1>>))
       /\ ~RatLess(At(_initial_parameter, <<1, 1>>), Rat(0, 1))

\* the width guess of a dip two bins wide: the quartile indices differ
C30_Witness ==
    /\ last.op = "guess_width_single"
    /\ DipsNotFlat(Spectrum(_data, 1, 1))
    /\ _data = OneSpectrum(esrsingle(4, 2))
    /\ WidthIdx(<<1, 4>>) > WidthIdx(<<3, 4>>)
    /\ RatLess(Rat(1, 1), At(_initial_parameter, <<1, 1>>))

====
